---- MODULE Spec2Model ----
(***************************************************************************)
(* BRP questionnaire assistant (src/app.py): the Streamlit session state   *)
(* and the handlers of main() and of the display_* functions.              *)
(*                                                                         *)
(* A script run is split at st.rerun(): a handler runs with pc = "idle"    *)
(* on the screen drawn last and, when it calls st.rerun(), leaves          *)
(* pc = "rerun"; Redraw is the part of main() that runs before a screen    *)
(* is drawn (sidebar, screen selection, section-complete reset).           *)
(*                                                                         *)
(* Text is a sequence of tokens (single characters or words); str.strip,   *)
(* str.split, str.startswith and json.loads are computed on tokens.        *)
(***************************************************************************)
EXTENDS Integers, Sequences, FiniteSets, TLC

\* ---------------------------------------------------------------- bounds
MaxQuestions == 2      \* questions of the longest section of the bank
MaxJsonList == 3       \* longest JSON array the classifier returns
MaxEdits == 1          \* writes that replace the timestamp of a Response

\* ------------------------------------------------------- the question bank
SectionNames == {"Company", "Security"}

NumQuestions(s) == IF s = "Company" THEN 1 ELSE MaxQuestions

QIds == {q \in SectionNames \X (0..(MaxQuestions - 1)) : q[2] < NumQuestions(q[1])}

TotalQuestions == Cardinality(QIds)

\* ------------------------------------------------------------------- text
Whitespace == {" ", "\n"}

Range(s) == {s[i] : i \in 1..Len(s)}

RECURSIVE LStrip(_, _)
LStrip(s, chars) ==
    IF s = <<>> THEN s
    ELSE IF Head(s) \in chars THEN LStrip(Tail(s), chars) ELSE s

RECURSIVE RStrip(_, _)
RStrip(s, chars) ==
    IF s = <<>> THEN s
    ELSE IF s[Len(s)] \in chars THEN RStrip(SubSeq(s, 1, Len(s) - 1), chars) ELSE s

\* str.strip(chars)
StripChars(s, chars) == RStrip(LStrip(s, chars), chars)

\* str.strip()
Strip(s) == StripChars(s, Whitespace)

\* str.startswith(marker), the marker being one token
StartsWith(s, marker) == s # <<>> /\ Head(s) = marker

\* str.split(sep): the pieces between the separators, empty pieces kept
RECURSIVE SplitAcc(_, _, _)
SplitAcc(s, sep, cur) ==
    IF s = <<>> THEN <<cur>>
    ELSE IF Head(s) = sep THEN <<cur>> \o SplitAcc(Tail(s), sep, <<>>)
    ELSE SplitAcc(Tail(s), sep, Append(cur, Head(s)))

Split(s, sep) == SplitAcc(s, sep, <<>>)

\* seq[:n]
FirstN(s, n) == SubSeq(s, 1, IF Len(s) < n THEN Len(s) ELSE n)

\* ------------------------------------------------------------- json.loads
\* The values the classifier's JSON part takes here: an array of quoted
\* strings, an object {} or a quoted string; anything else does not parse.
JsonString(t) ==
    /\ Len(t) >= 2
    /\ t[1] = "\""
    /\ t[Len(t)] = "\""
    /\ "\"" \notin Range(SubSeq(t, 2, Len(t) - 1))

JsonArrayItems(t) ==
    LET inner == Strip(SubSeq(t, 2, Len(t) - 1))
        items == IF inner = <<>> THEN <<>> ELSE Split(inner, ",")
    IN  [i \in 1..Len(items) |-> Strip(items[i])]

\* [ok, islist, value]: ok = FALSE is json.loads raising
JsonLoads(text) ==
    LET t == Strip(text) IN
    IF Len(t) >= 2 /\ t[1] = "[" /\ t[Len(t)] = "]"
    THEN LET items == JsonArrayItems(t) IN
         IF \A i \in 1..Len(items) : JsonString(items[i])
         THEN [ok |-> TRUE, islist |-> TRUE,
               value |-> [i \in 1..Len(items) |->
                             SubSeq(items[i], 2, Len(items[i]) - 1)]]
         ELSE [ok |-> FALSE, islist |-> FALSE, value |-> <<>>]
    ELSE IF t = <<"{", "}">> \/ JsonString(t)
    THEN [ok |-> TRUE, islist |-> FALSE, value |-> <<>>]
    ELSE [ok |-> FALSE, islist |-> FALSE, value |-> <<>>]

\* ------------------------------------------------- the classifier's outputs
FollowupQ(k) == <<"q", ToString(k), "?">>

RECURSIVE JsonItems(_, _)
JsonItems(k, n) ==
    IF k > n THEN <<>>
    ELSE <<"\"">> \o FollowupQ(k) \o <<"\"">>
         \o (IF k < n THEN <<",", " ">> ELSE <<>>) \o JsonItems(k + 1, n)

\* NEEDS_FOLLOWUP followed by a well-formed JSON array of n questions
JsonOutput(n) == <<"NEEDS_FOLLOWUP", "\n", "[">> \o JsonItems(1, n) \o <<"]">>

\* NEEDS_FOLLOWUP followed by a bulleted list: three questions and a remark
BulletOutput ==
    <<"NEEDS_FOLLOWUP", " ", "please", "?", "\n", "\n">>
    \o <<"-", " ">> \o FollowupQ(1) \o <<"\n">>
    \o <<"-", " ", "a", "remark", "\n">>
    \o <<"-", " ", "\"">> \o FollowupQ(2) \o <<"\"", ",", "\n">>
    \o <<"-", " ">> \o FollowupQ(3)

\* NEEDS_FOLLOWUP followed by an array that is never closed
BrokenJsonOutput ==
    <<"NEEDS_FOLLOWUP", "\n", "[", "\"">> \o FollowupQ(1) \o <<"\"", ",">>

\* NEEDS_FOLLOWUP with nothing that parses and no question
NoQuestionOutput == <<"NEEDS_FOLLOWUP", "\n", "no", "idea">>

ResponseTexts ==
    {<<"ADEQUATE">>,
     <<" ", "ADEQUATE", "\n", "good">>,
     <<"unsure">>,
     <<>>,
     <<"NEEDS_FOLLOWUP", " ", "{", "}">>,
     BulletOutput, BrokenJsonOutput, NoQuestionOutput}
    \cup {JsonOutput(n) : n \in 0..MaxJsonList}

\* what model.generate_content(prompt) does: raise, or return a text
ClassifierOutputs ==
    {[raises |-> TRUE, text |-> <<>>]}
    \cup {[raises |-> FALSE, text |-> t] : t \in ResponseTexts}

\* the value standing for "no call was made"
NoOutput == [raises |-> FALSE, text |-> <<"-">>]

\* ------------------------------------------------------ validate_response
\* the except branch: lines after the first that hold a question mark
RECURSIVE ExtractQuestions(_)
ExtractQuestions(lines) ==
    IF lines = <<>> THEN <<>>
    ELSE LET line == Strip(Head(lines))
             question == StripChars(line, {"-", " ", "\"", "[", "]", ","})
         IN  (IF line # <<>> /\ "?" \in Range(line) /\ question # <<>>
              THEN <<question>> ELSE <<>>)
             \o ExtractQuestions(Tail(lines))

validate_response_fail_closed(out) ==
    IF out.raises THEN <<FALSE, <<>>>>
    ELSE LET response_text == Strip(out.text) IN
         IF StartsWith(response_text, "ADEQUATE") THEN <<TRUE, <<>>>>
         ELSE <<FALSE, <<>>>>

\* <<is_adequate, followup_questions>>
validate_response(out) ==
    IF out.raises THEN <<TRUE, <<>>>>
    ELSE LET response_text == Strip(out.text) IN
         IF StartsWith(response_text, "ADEQUATE") THEN <<TRUE, <<>>>>
         ELSE IF StartsWith(response_text, "NEEDS_FOLLOWUP")
         THEN LET json_part == Strip(Tail(response_text))
                  parsed == JsonLoads(json_part)
              IN  IF parsed.ok
                  THEN <<FALSE, IF parsed.islist THEN parsed.value ELSE <<>>>>
                  ELSE <<FALSE,
                         FirstN(ExtractQuestions(Tail(Split(response_text, "\n"))), 2)>>
         ELSE <<TRUE, <<>>>>

\* ------------------------------------------------------------ user inputs
AnswerTexts == {<<>>, <<" ", "\n">>, <<" ", "a", " ">>}

FollowupTexts == {<<>>, <<" ">>, <<"c", " ">>}

EditTexts == {<<>>, <<"\n", " ">>, <<" ", "e">>}

\* ------------------------------------------------------------------ state
VARIABLES
    answered,                \* sections[s][i]['answered']
    responses,               \* st.session_state.responses
    current_section,
    current_question_index,
    completed_sections,
    followup_mode,
    followup_questions,
    followup_answers,
    current_followup_index,
    original_answer,
    editing_mode,
    editing_question,        \* <<>> is None
    pc,                      \* "rerun": the script is about to run; "idle": a screen is shown
    screen,                  \* the screen main() drew last
    last                     \* the user action handled in this script run

session == <<answered, responses, current_section, current_question_index,
             completed_sections, followup_mode, followup_questions,
             followup_answers, current_followup_index, original_answer,
             editing_mode, editing_question>>

followup_state == <<followup_mode, followup_questions, followup_answers,
                    current_followup_index, original_answer>>

editing_state == <<editing_mode, editing_question>>

vars == <<session, pc, screen, last>>

HasResponse(q) == q \in DOMAIN responses

\* the question the main question and follow-up screens are about
CurrentQ == <<current_section, current_question_index>>

\* datetime.now().isoformat(): the instants are not modelled, only that a
\* write stamps a later instant than the one it replaces; a timestamp is
\* the number of writes that replaced it
Stamp(q) == IF HasResponse(q) THEN responses[q].timestamp + 1 ELSE 0

RECURSIVE SumStamps(_)
SumStamps(S) ==
    IF S = {} THEN 0
    ELSE LET q == CHOOSE r \in S : TRUE
         IN  responses[q].timestamp + SumStamps(S \ {q})

\* a write that replaces a timestamp is one of at most MaxEdits
CanWrite(q) == HasResponse(q) => SumStamps(DOMAIN responses) < MaxEdits

\* a script run that no click started (the first one, or one after st.rerun())
NoAction == [op |-> "None", text |-> <<>>, out |-> NoOutput, called |-> FALSE]

\* the button clicked in this script run, the text in its text area, the
\* classifier's output and whether validate_response was called
Did(op, text, out, called) ==
    last' = [op |-> op, text |-> text, out |-> out, called |-> called]

Init ==
    /\ answered = [q \in QIds |-> FALSE]
    /\ responses = <<>>
    /\ current_section = ""
    /\ current_question_index = 0
    /\ completed_sections = {}
    /\ followup_mode = FALSE
    /\ followup_questions = <<>>
    /\ followup_answers = <<>>
    /\ current_followup_index = 0
    /\ original_answer = <<>>
    /\ editing_mode = FALSE
    /\ editing_question = <<>>
    /\ pc = "rerun"
    /\ screen = "None"
    /\ last = NoAction

\* --------------------------------------------------------- progress sidebar
SectionAnswered(s) == Cardinality({q \in QIds : q[1] = s /\ answered[q]})

\* display_progress_sidebar: the sections it adds to completed_sections
NewlyCompleted == {s \in SectionNames : SectionAnswered(s) = NumQuestions(s)}

\* ------------------------------------------------------------ save_response
save_response_no_flag(section, question_index, answer, followup_data) ==
    /\ responses' = [q \in DOMAIN responses \cup {<<section, question_index>>} |->
                        IF q = <<section, question_index>>
                        THEN [answer |-> answer, followup |-> followup_data,
                              timestamp |-> Stamp(<<section, question_index>>)]
                        ELSE responses[q]]
    /\ answered' = answered

save_response(section, question_index, answer, followup_data) ==
    /\ responses' = [q \in DOMAIN responses \cup {<<section, question_index>>} |->
                        IF q = <<section, question_index>>
                        THEN [answer |-> answer, followup |-> followup_data,
                              timestamp |-> Stamp(<<section, question_index>>)]
                        ELSE responses[q]]
    /\ answered' = [answered EXCEPT ![<<section, question_index>>] = TRUE]

\* ------------------------------------------------------ reset_followup_state
reset_followup_state_keeps_answers ==
    /\ followup_mode' = FALSE
    /\ followup_questions' = <<>>
    /\ current_followup_index' = 0
    /\ UNCHANGED <<followup_answers, original_answer>>

reset_followup_state_keeps_cursor ==
    /\ followup_mode' = FALSE
    /\ followup_questions' = <<>>
    /\ followup_answers' = <<>>
    /\ original_answer' = <<>>
    /\ UNCHANGED current_followup_index

reset_followup_state ==
    /\ followup_mode' = FALSE
    /\ followup_questions' = <<>>
    /\ followup_answers' = <<>>
    /\ current_followup_index' = 0
    /\ original_answer' = <<>>

\* --------------------------------------------------------------------- main
SectionDone_off_by_one == current_question_index > NumQuestions(current_section)

\* "Check if section is completed"
SectionDone == current_question_index >= NumQuestions(current_section)

\* main() up to the screen it draws: the sidebar, then the screen selection
Redraw ==
    /\ pc = "rerun"
    /\ pc' = "idle"
    /\ completed_sections' = completed_sections \cup NewlyCompleted
    /\ IF Cardinality(completed_sections') = Cardinality(SectionNames)
       THEN /\ screen' = "Summary"
            /\ UNCHANGED <<current_section, current_question_index, followup_mode>>
       ELSE IF current_section = "" \/ editing_mode
       THEN /\ screen' = IF ~editing_mode THEN "SectionSelection" ELSE "Editing"
            /\ UNCHANGED <<current_section, current_question_index, followup_mode>>
       ELSE IF SectionDone
       THEN /\ screen' = "SectionComplete"
            /\ current_section' = ""
            /\ current_question_index' = 0
            /\ followup_mode' = FALSE
       ELSE /\ screen' = IF followup_mode THEN "Followup" ELSE "Main"
            /\ UNCHANGED <<current_section, current_question_index, followup_mode>>
    /\ last' = NoAction
    /\ UNCHANGED <<answered, responses, followup_questions, followup_answers,
                   current_followup_index, original_answer, editing_state>>

\* "Continue to Next Section" on the section-complete screen
Continue ==
    /\ pc = "idle"
    /\ screen = "SectionComplete"
    /\ pc' = "rerun"
    /\ Did("Continue", <<>>, NoOutput, FALSE)
    /\ UNCHANGED <<session, screen>>

\* a widget that is no handler's button reruns the script: a text area
\* whose value changed, the download button of the summary
Interact ==
    /\ pc = "idle"
    /\ screen \in {"Main", "Followup", "Summary"}
    /\ pc' = "rerun"
    /\ Did("Interact", <<>>, NoOutput, FALSE)
    /\ UNCHANGED <<session, screen>>

\* -------------------------------------------------- display_section_selection
Unanswered(s) == {i \in 0..(NumQuestions(s) - 1) : ~answered[<<s, i>>]}

Min(S) == CHOOSE x \in S : \A y \in S : x <= y

Start_from_zero(section_name) ==
    /\ pc = "idle"
    /\ screen = "SectionSelection"
    /\ section_name \notin completed_sections
    /\ current_section' = section_name
    /\ current_question_index' = 0
    /\ pc' = "rerun"
    /\ Did("Start", <<section_name>>, NoOutput, FALSE)
    /\ UNCHANGED <<answered, responses, completed_sections, followup_state,
                   editing_state, screen>>

Start(section_name) ==
    /\ pc = "idle"
    /\ screen = "SectionSelection"
    /\ section_name \notin completed_sections
    /\ current_section' = section_name
    /\ current_question_index' =
          IF Unanswered(section_name) # {} THEN Min(Unanswered(section_name))
          ELSE current_question_index
    /\ pc' = "rerun"
    /\ Did("Start", <<section_name>>, NoOutput, FALSE)
    /\ UNCHANGED <<answered, responses, completed_sections, followup_state,
                   editing_state, screen>>

\* ---------------------------------------------- display_main_question_interface
\* is_adequate: the answer is saved and the cursor moves on
SubmitAdequate_saves_raw(user_answer) ==
    /\ CanWrite(CurrentQ)
    /\ save_response(current_section, current_question_index, user_answer, <<>>)
    /\ current_question_index' = current_question_index + 1
    /\ pc' = "rerun"
    /\ UNCHANGED <<current_section, completed_sections, followup_state,
                   editing_state, screen>>

SubmitAdequate(user_answer) ==
    /\ CanWrite(CurrentQ)
    /\ save_response(current_section, current_question_index, Strip(user_answer), <<>>)
    /\ current_question_index' = current_question_index + 1
    /\ pc' = "rerun"
    /\ UNCHANGED <<current_section, completed_sections, followup_state,
                   editing_state, screen>>

\* not is_adequate: follow-up mode is entered
EnterFollowup_commits(user_answer, questions) ==
    /\ CanWrite(CurrentQ)
    /\ save_response(current_section, current_question_index, Strip(user_answer), <<>>)
    /\ followup_mode' = TRUE
    /\ followup_questions' = questions
    /\ followup_answers' = <<>>
    /\ current_followup_index' = 0
    /\ original_answer' = Strip(user_answer)
    /\ pc' = "rerun"
    /\ UNCHANGED <<current_section, current_question_index, completed_sections,
                   editing_state, screen>>

EnterFollowup(user_answer, questions) ==
    /\ followup_mode' = TRUE
    /\ followup_questions' = questions
    /\ followup_answers' = <<>>
    /\ current_followup_index' = 0
    /\ original_answer' = Strip(user_answer)
    /\ pc' = "rerun"
    /\ UNCHANGED <<answered, responses, current_section, current_question_index,
                   completed_sections, editing_state, screen>>

SubmitAnswer_no_blank_check(user_answer, out) ==
    /\ pc = "idle"
    /\ screen = "Main"
    /\ Did("Submit", user_answer, out, TRUE)
    /\ IF validate_response(out)[1]
       THEN SubmitAdequate(user_answer)
       ELSE EnterFollowup(user_answer, validate_response(out)[2])

SubmitAnswer(user_answer, out) ==
    /\ pc = "idle"
    /\ screen = "Main"
    /\ IF Strip(user_answer) # <<>>
       THEN /\ Did("Submit", user_answer, out, TRUE)
            /\ IF validate_response(out)[1]
               THEN SubmitAdequate(user_answer)
               ELSE EnterFollowup(user_answer, validate_response(out)[2])
       ELSE /\ Did("Submit", user_answer, NoOutput, FALSE)
            /\ UNCHANGED <<session, pc, screen>>

Skip_keeps_cursor ==
    /\ pc = "idle"
    /\ screen = "Main"
    /\ CanWrite(CurrentQ)
    /\ save_response(current_section, current_question_index, <<"Skipped">>, <<>>)
    /\ pc' = "rerun"
    /\ Did("Skip", <<>>, NoOutput, FALSE)
    /\ UNCHANGED <<current_section, current_question_index, completed_sections,
                   followup_state, editing_state, screen>>

Skip ==
    /\ pc = "idle"
    /\ screen = "Main"
    /\ CanWrite(CurrentQ)
    /\ save_response(current_section, current_question_index, <<"Skipped">>, <<>>)
    /\ current_question_index' = current_question_index + 1
    /\ pc' = "rerun"
    /\ Did("Skip", <<>>, NoOutput, FALSE)
    /\ UNCHANGED <<current_section, completed_sections, followup_state,
                   editing_state, screen>>

BackToSections_keeps_section ==
    /\ pc = "idle"
    /\ screen = "Main"
    /\ followup_mode' = FALSE
    /\ pc' = "rerun"
    /\ Did("BackToSections", <<>>, NoOutput, FALSE)
    /\ UNCHANGED <<answered, responses, current_section, current_question_index,
                   completed_sections, followup_questions, followup_answers,
                   current_followup_index, original_answer, editing_state, screen>>

\* the button is drawn by display_main_question_interface only
BackToSections ==
    /\ pc = "idle"
    /\ screen = "Main"
    /\ current_section' = ""
    /\ followup_mode' = FALSE
    /\ pc' = "rerun"
    /\ Did("BackToSections", <<>>, NoOutput, FALSE)
    /\ UNCHANGED <<answered, responses, current_question_index, completed_sections,
                   followup_questions, followup_answers, current_followup_index,
                   original_answer, editing_state, screen>>

\* -------------------------------------------------- display_followup_interface
NextFollowup_keeps_index(followup_answer) ==
    /\ pc = "idle"
    /\ screen = "Followup"
    /\ current_followup_index < Len(followup_questions)
    /\ Did("Next", followup_answer, NoOutput, FALSE)
    /\ IF Strip(followup_answer) # <<>>
       THEN /\ followup_answers' =
                   Append(followup_answers,
                          [question |-> followup_questions[current_followup_index + 1],
                           answer |-> Strip(followup_answer)])
            /\ pc' = "rerun"
            /\ UNCHANGED <<answered, responses, current_section,
                           current_question_index, completed_sections, followup_mode,
                           followup_questions, current_followup_index,
                           original_answer, editing_state, screen>>
       ELSE UNCHANGED <<session, pc, screen>>

\* "Next": sequences are 1-based, so followup_questions[current_followup_index]
\* of the source is followup_questions[current_followup_index + 1] here
NextFollowup(followup_answer) ==
    /\ pc = "idle"
    /\ screen = "Followup"
    /\ current_followup_index < Len(followup_questions)
    /\ Did("Next", followup_answer, NoOutput, FALSE)
    /\ IF Strip(followup_answer) # <<>>
       THEN /\ followup_answers' =
                   Append(followup_answers,
                          [question |-> followup_questions[current_followup_index + 1],
                           answer |-> Strip(followup_answer)])
            /\ current_followup_index' = current_followup_index + 1
            /\ pc' = "rerun"
            /\ UNCHANGED <<answered, responses, current_section,
                           current_question_index, completed_sections, followup_mode,
                           followup_questions, original_answer, editing_state,
                           screen>>
       ELSE UNCHANGED <<session, pc, screen>>

UseOriginal_keeps_followups ==
    /\ pc = "idle"
    /\ screen = "Followup"
    /\ current_followup_index < Len(followup_questions)
    /\ CanWrite(CurrentQ)
    /\ save_response(current_section, current_question_index, original_answer,
                     followup_answers)
    /\ reset_followup_state
    /\ current_question_index' = current_question_index + 1
    /\ pc' = "rerun"
    /\ Did("UseOriginal", <<>>, NoOutput, FALSE)
    /\ UNCHANGED <<current_section, completed_sections, editing_state, screen>>

\* "Accept original answer as is"
UseOriginal ==
    /\ pc = "idle"
    /\ screen = "Followup"
    /\ current_followup_index < Len(followup_questions)
    /\ CanWrite(CurrentQ)
    /\ save_response(current_section, current_question_index, original_answer, <<>>)
    /\ reset_followup_state
    /\ current_question_index' = current_question_index + 1
    /\ pc' = "rerun"
    /\ Did("UseOriginal", <<>>, NoOutput, FALSE)
    /\ UNCHANGED <<current_section, completed_sections, editing_state, screen>>

RECURSIVE FollowupLines_reversed(_)
FollowupLines_reversed(fas) ==
    IF fas = <<>> THEN <<>>
    ELSE FollowupLines_reversed(Tail(fas))
         \o <<"*", " ">> \o Head(fas).question \o <<":", " ">> \o Head(fas).answer
         \o <<"\n">>

\* one line of the combined answer per follow-up; "*" is the bullet character
RECURSIVE FollowupLines(_)
FollowupLines(fas) ==
    IF fas = <<>> THEN <<>>
    ELSE <<"*", " ">> \o Head(fas).question \o <<":", " ">> \o Head(fas).answer
         \o <<"\n">> \o FollowupLines(Tail(fas))

combined_answer ==
    original_answer \o <<"\n", "\n", "Additional Details:", "\n">>
    \o FollowupLines(followup_answers)

AcceptFinal_keeps_cursor ==
    /\ pc = "idle"
    /\ screen = "Followup"
    /\ ~(current_followup_index < Len(followup_questions))
    /\ CanWrite(CurrentQ)
    /\ save_response(current_section, current_question_index, combined_answer,
                     followup_answers)
    /\ reset_followup_state
    /\ pc' = "rerun"
    /\ Did("AcceptFinal", <<>>, NoOutput, FALSE)
    /\ UNCHANGED <<current_section, current_question_index, completed_sections,
                   editing_state, screen>>

\* "Accept Final Answer"
AcceptFinal ==
    /\ pc = "idle"
    /\ screen = "Followup"
    /\ ~(current_followup_index < Len(followup_questions))
    /\ CanWrite(CurrentQ)
    /\ save_response(current_section, current_question_index, combined_answer,
                     followup_answers)
    /\ reset_followup_state
    /\ current_question_index' = current_question_index + 1
    /\ pc' = "rerun"
    /\ Did("AcceptFinal", <<>>, NoOutput, FALSE)
    /\ UNCHANGED <<current_section, completed_sections, editing_state, screen>>

StartOver_skips_question ==
    /\ pc = "idle"
    /\ screen = "Followup"
    /\ ~(current_followup_index < Len(followup_questions))
    /\ reset_followup_state
    /\ current_question_index' = current_question_index + 1
    /\ pc' = "rerun"
    /\ Did("StartOver", <<>>, NoOutput, FALSE)
    /\ UNCHANGED <<answered, responses, current_section, completed_sections,
                   editing_state, screen>>

\* the question index is left as it is: the same question is asked again
StartOver ==
    /\ pc = "idle"
    /\ screen = "Followup"
    /\ ~(current_followup_index < Len(followup_questions))
    /\ reset_followup_state
    /\ pc' = "rerun"
    /\ Did("StartOver", <<>>, NoOutput, FALSE)
    /\ UNCHANGED <<answered, responses, current_section, current_question_index,
                   completed_sections, editing_state, screen>>

\* ------------------------------------------------------------- display_summary
Edit_no_target(q) ==
    /\ pc = "idle"
    /\ screen = "Summary"
    /\ q \in DOMAIN responses
    /\ editing_mode' = TRUE
    /\ pc' = "rerun"
    /\ Did("Edit", <<>>, NoOutput, FALSE)
    /\ UNCHANGED <<answered, responses, current_section, current_question_index,
                   completed_sections, followup_state, editing_question, screen>>

Edit(q) ==
    /\ pc = "idle"
    /\ screen = "Summary"
    /\ q \in DOMAIN responses
    /\ editing_mode' = TRUE
    /\ editing_question' = q
    /\ pc' = "rerun"
    /\ Did("Edit", <<>>, NoOutput, FALSE)
    /\ UNCHANGED <<answered, responses, current_section, current_question_index,
                   completed_sections, followup_state, screen>>

\* "Start New Questionnaire": every key but 'sections' is deleted, and
\* initialize_session_state sets each again at the start of the next run
Restart ==
    /\ pc = "idle"
    /\ screen = "Summary"
    /\ responses' = <<>>
    /\ current_section' = ""
    /\ current_question_index' = 0
    /\ completed_sections' = {}
    /\ reset_followup_state
    /\ editing_mode' = FALSE
    /\ editing_question' = <<>>
    /\ pc' = "rerun"
    /\ Did("Restart", <<>>, NoOutput, FALSE)
    /\ UNCHANGED <<answered, screen>>

\* --------------------------------------------------- display_editing_interface
SaveChanges_drops_followup(new_answer) ==
    /\ pc = "idle"
    /\ editing_mode
    /\ editing_question \in DOMAIN responses
    /\ Did("SaveChanges", new_answer, NoOutput, FALSE)
    /\ IF Strip(new_answer) # <<>>
       THEN /\ CanWrite(editing_question)
            /\ responses' = [responses EXCEPT ![editing_question] =
                                [answer |-> Strip(new_answer), followup |-> <<>>,
                                 timestamp |-> Stamp(editing_question)]]
            /\ editing_mode' = FALSE
            /\ editing_question' = <<>>
            /\ pc' = "rerun"
            /\ UNCHANGED <<answered, current_section, current_question_index,
                           completed_sections, followup_state, screen>>
       ELSE UNCHANGED <<session, pc, screen>>

SaveChanges(new_answer) ==
    /\ pc = "idle"
    /\ editing_mode
    /\ editing_question \in DOMAIN responses
    /\ Did("SaveChanges", new_answer, NoOutput, FALSE)
    /\ IF Strip(new_answer) # <<>>
       THEN /\ CanWrite(editing_question)
            /\ responses' = [responses EXCEPT
                                ![editing_question].answer = Strip(new_answer),
                                ![editing_question].timestamp = Stamp(editing_question)]
            /\ editing_mode' = FALSE
            /\ editing_question' = <<>>
            /\ pc' = "rerun"
            /\ UNCHANGED <<answered, current_section, current_question_index,
                           completed_sections, followup_state, screen>>
       ELSE UNCHANGED <<session, pc, screen>>

Cancel ==
    /\ pc = "idle"
    /\ editing_mode
    /\ editing_mode' = FALSE
    /\ editing_question' = <<>>
    /\ pc' = "rerun"
    /\ Did("Cancel", <<>>, NoOutput, FALSE)
    /\ UNCHANGED <<answered, responses, current_section, current_question_index,
                   completed_sections, followup_state, screen>>

\* ------------------------------------------------------------ specifications
\* the text the editing field may hold: typed text, or the current answer
EditInputs ==
    EditTexts \cup (IF editing_question \in DOMAIN responses
                    THEN {responses[editing_question].answer} ELSE {})

Next ==
    \/ Redraw
    \/ Continue
    \/ Interact
    \/ \E s \in SectionNames : Start(s)
    \/ \E t \in AnswerTexts, out \in ClassifierOutputs : SubmitAnswer(t, out)
    \/ Skip
    \/ BackToSections
    \/ \E t \in FollowupTexts : NextFollowup(t)
    \/ UseOriginal
    \/ AcceptFinal
    \/ StartOver
    \/ \E q \in QIds : Edit(q)
    \/ Restart

Spec == Init /\ [][Next]_vars

\* the classifier's outputs that fill the response store for the editing
\* handlers: adequate, and one and two follow-up questions
EditingOutputs ==
    {[raises |-> FALSE, text |-> t] :
        t \in {<<"ADEQUATE">>, JsonOutput(1), JsonOutput(2)}}

\* The handlers of display_editing_interface, run directly in any session
\* state with editing_mode set: main() itself never calls it there.
NextEditing ==
    \/ Redraw
    \/ Continue
    \/ Interact
    \/ \E s \in SectionNames : Start(s)
    \/ \E t \in AnswerTexts, out \in EditingOutputs : SubmitAnswer(t, out)
    \/ Skip
    \/ BackToSections
    \/ \E t \in FollowupTexts : NextFollowup(t)
    \/ UseOriginal
    \/ AcceptFinal
    \/ StartOver
    \/ \E q \in QIds : Edit(q)
    \/ Restart
    \/ \E t \in EditInputs : SaveChanges(t)
    \/ Cancel

SpecEditing == Init /\ [][NextEditing]_vars

\* ==================================================================== claims
\* a step that handles the user action op
Handles(op) == pc = "idle" /\ last'.op = op

\* the response store after one commit of answer and followup_data for q
Committed(q, answer, followup_data) ==
    /\ DOMAIN responses' = DOMAIN responses \cup {q}
    /\ responses'[q].answer = answer
    /\ responses'[q].followup = followup_data
    /\ \A r \in DOMAIN responses \ {q} : responses'[r] = responses[r]
    /\ answered' = [answered EXCEPT ![q] = TRUE]

\* C1: in every reachable state a question is marked answered if and only
\* if the response store holds a Response for it.
C1_AnsweredIffResponse == \A q \in QIds : answered[q] <=> HasResponse(q)

\* C2: whenever the Summary screen is the screen drawn, every question of
\* every section has a Response.
C2_SummaryAllAnswered ==
    (pc = "idle" /\ screen = "Summary") => \A q \in QIds : HasResponse(q)

\* C3: while follow-up mode lasts the current question has no Response, and
\* no step taken in follow-up mode other than UseOriginal or AcceptFinal
\* (Next, a redraw, a rerun, StartOver) changes the response store or the
\* answered flags.
C3_FollowupCommitsNothing ==
    /\ [](followup_mode => CurrentQ \in QIds /\ ~HasResponse(CurrentQ))
    /\ [][(followup_mode /\ ~Handles("UseOriginal") /\ ~Handles("AcceptFinal"))
          => UNCHANGED <<responses, answered>>]_vars

C3_Witness ==
    /\ followup_mode
    /\ pc = "idle"
    /\ screen = "Followup"
    /\ Len(followup_answers) > 0
    /\ DOMAIN responses # {}

\* C4: StartOver clears the follow-up sub-state, leaves mode Normal and the
\* response store, the answered flags, the active section and the cursor
\* as they were; the redraw that follows draws the Main Question screen for
\* the same question.
C4_StartOverDiscards ==
    /\ [][Handles("StartOver") =>
            /\ followup_questions' = <<>>
            /\ followup_answers' = <<>>
            /\ current_followup_index' = 0
            /\ original_answer' = <<>>
            /\ ~followup_mode'
            /\ ~editing_mode'
            /\ UNCHANGED <<responses, answered, current_section,
                           current_question_index>>]_vars
    /\ [][(pc = "rerun" /\ last.op = "StartOver") =>
            /\ screen' = "Main"
            /\ followup_answers' = <<>>
            /\ original_answer' = <<>>
            /\ UNCHANGED <<responses, answered, current_section,
                           current_question_index>>]_vars

C4_Witness ==
    /\ last.op = "StartOver"
    /\ pc = "rerun"
    /\ ~followup_mode
    /\ followup_answers = <<>>
    /\ current_section = "Security"
    /\ current_question_index = 1

\* the classifier's text starts with the adequate marker
JudgedAdequate(out) == ~out.raises /\ StartsWith(Strip(out.text), "ADEQUATE")

\* the classifier's text starts with the follow-up marker
JudgedFollowup(out) == ~out.raises /\ StartsWith(Strip(out.text), "NEEDS_FOLLOWUP")

\* the step commits the trimmed text for the current question with no
\* followups, advances the cursor by 1 and leaves mode Normal
CommitsAsAdequate ==
    /\ Committed(CurrentQ, Strip(last'.text), <<>>)
    /\ current_question_index' = current_question_index + 1
    /\ current_section' = current_section
    /\ ~followup_mode'
    /\ ~editing_mode'

\* C5: a Submit of non-blank text that the classifier judges adequate
\* commits the trimmed text with empty followups for the current question,
\* advances the cursor by exactly 1 and leaves mode Normal.
C5_SubmitAdequateAdvances ==
    [][(Handles("Submit") /\ Strip(last'.text) # <<>> /\ JudgedAdequate(last'.out))
       => CommitsAsAdequate]_vars

C5_Witness ==
    /\ last.op = "Submit"
    /\ last.text # Strip(last.text)
    /\ JudgedAdequate(last.out)
    /\ pc = "rerun"
    /\ current_question_index = 2

\* C6: Skip commits the answer "Skipped" with empty followups for the
\* current question and advances the cursor by exactly 1, with no
\* classifier call.
C6_SkipRecordsMarker ==
    [][Handles("Skip") =>
         /\ Committed(CurrentQ, <<"Skipped">>, <<>>)
         /\ current_question_index' = current_question_index + 1
         /\ current_section' = current_section
         /\ ~followup_mode'
         /\ ~last'.called]_vars

C6_Witness ==
    /\ last.op = "Skip"
    /\ pc = "rerun"
    /\ current_section = "Security"
    /\ current_question_index = 1
    /\ HasResponse(<<"Security", 0>>)
    /\ responses[<<"Security", 0>>].answer = <<"Skipped">>

\* C7: a Submit of non-blank text whose classifier call raises, or returns
\* a text that starts with neither marker, is handled as an adequate
\* verdict: the answer is committed, the cursor advances by 1 and follow-up
\* mode is not entered.
C7_FailOpen ==
    [][(/\ Handles("Submit")
        /\ last'.called
        /\ ~JudgedAdequate(last'.out)
        /\ ~JudgedFollowup(last'.out))
       => CommitsAsAdequate]_vars

C7_Witness ==
    /\ last.op = "Submit"
    /\ last.called
    /\ last.out.raises
    /\ pc = "rerun"
    /\ ~followup_mode
    /\ current_question_index = 1

\* C8: a Submit, a follow-up Next or a SaveChanges whose text is empty or
\* only whitespace changes nothing of the session, draws no other screen
\* and does not call the classifier.
C8_BlankInputNoMutation ==
    [][(Handles("Submit") \/ Handles("Next") \/ Handles("SaveChanges"))
       /\ Strip(last'.text) = <<>>
       => (UNCHANGED <<session, pc, screen>> /\ ~last'.called)]_vars

C8_Witness ==
    /\ last.op = "Submit"
    /\ last.text # <<>>
    /\ Strip(last.text) = <<>>
    /\ pc = "idle"
    /\ screen = "Main"

\* C9: after an edit request on the Summary screen the next redraw draws
\* the Editing screen for the requested question.
C9_EditRequestShowsEditing ==
    [][(pc = "rerun" /\ last.op = "Edit") =>
         /\ screen' = "Editing"
         /\ editing_mode'
         /\ editing_question' = editing_question
         /\ HasResponse(editing_question)]_vars

\* C10: SaveChanges with non-blank text replaces the answer and the
\* timestamp of the edit target's Response, leaves its followups and every
\* other Response as they were and exits Editing mode; Cancel exits Editing
\* mode with the response store unchanged; neither calls the classifier.
C10_EditingFrame ==
    /\ [][(Handles("SaveChanges") /\ Strip(last'.text) # <<>>) =>
            /\ DOMAIN responses' = DOMAIN responses
            /\ responses'[editing_question].answer = Strip(last'.text)
            /\ responses'[editing_question].followup =
                   responses[editing_question].followup
            /\ responses'[editing_question].timestamp >
                   responses[editing_question].timestamp
            /\ \A q \in DOMAIN responses \ {editing_question} :
                   responses'[q] = responses[q]
            /\ answered' = answered
            /\ ~editing_mode'
            /\ editing_question' = <<>>
            /\ ~last'.called]_vars
    /\ [][Handles("Cancel") =>
            /\ UNCHANGED <<responses, answered>>
            /\ ~editing_mode'
            /\ editing_question' = <<>>
            /\ ~last'.called]_vars

C10_Witness ==
    /\ last.op = "SaveChanges"
    /\ pc = "rerun"
    /\ ~editing_mode
    /\ \E q \in DOMAIN responses :
          /\ responses[q].answer = <<"e">>
          /\ responses[q].followup # <<>>

\* C11: selecting a section sets the active section to it and the cursor to
\* the smallest index of the section without a Response, whatever the
\* cursor held before; with every index answered the cursor becomes the
\* section length.
C11_StartResumesAtFirstUnanswered ==
    [][Handles("Start") =>
         LET s == last'.text[1]
             open == {i \in 0..(NumQuestions(s) - 1) : ~HasResponse(<<s, i>>)}
         IN  /\ current_section' = s
             /\ current_question_index' \in 0..NumQuestions(s)
             /\ \A i \in open : current_question_index' <= i
             /\ IF open = {} THEN current_question_index' = NumQuestions(s)
                ELSE current_question_index' \in open]_vars

\* Security, left after its first question, resumes at index 1
C11_Witness ==
    /\ last.op = "Start"
    /\ pc = "rerun"
    /\ current_section = "Security"
    /\ current_question_index = 1
    /\ HasResponse(<<"Security", 0>>)
    /\ ~HasResponse(<<"Security", 1>>)
    /\ ~HasResponse(<<"Company", 0>>)

\* C12: in every reachable state pendingFollowups holds at most 2
\* questions, whatever list the classifier returns.
C12_AtMostTwoFollowups == Len(followup_questions) <= 2

\* sub occurs in s as a run of consecutive tokens
Contains(s, sub) ==
    \E i \in 1..(Len(s) - Len(sub) + 1) : SubSeq(s, i, i + Len(sub) - 1) = sub

\* C13: AcceptFinal commits for the current question the answer made of
\* originalAnswer, the "Additional Details" header and exactly one line
\* per collected follow-up, in collection order, each containing
\* "<question>: <answer>", with followups equal to collectedAnswers; it
\* exits Followup mode and advances the cursor by 1.
C13_AcceptFinalCombines ==
    [][Handles("AcceptFinal") =>
         /\ CurrentQ \in DOMAIN responses'
         /\ LET answer == responses'[CurrentQ].answer
                n == Len(original_answer)
                k == Len(followup_answers)
                lines == Split(SubSeq(answer, n + 1, Len(answer)), "\n")
            IN  /\ Len(answer) > n
                /\ SubSeq(answer, 1, n) = original_answer
                /\ Len(lines) = k + 4
                /\ lines[1] = <<>>
                /\ lines[2] = <<>>
                /\ lines[3] = <<"Additional Details:">>
                /\ lines[k + 4] = <<>>
                /\ \A i \in 1..k :
                      Contains(lines[i + 3],
                               followup_answers[i].question \o <<":", " ">>
                               \o followup_answers[i].answer)
         /\ responses'[CurrentQ].followup = followup_answers
         /\ DOMAIN responses' = DOMAIN responses \cup {CurrentQ}
         /\ \A r \in DOMAIN responses \ {CurrentQ} : responses'[r] = responses[r]
         /\ ~followup_mode'
         /\ ~editing_mode'
         /\ current_section' = current_section
         /\ current_question_index' = current_question_index + 1]_vars

C13_Witness ==
    /\ last.op = "AcceptFinal"
    /\ pc = "rerun"
    /\ current_section = "Security"
    /\ current_question_index = 1
    /\ HasResponse(<<"Security", 0>>)
    /\ Len(responses[<<"Security", 0>>].followup) = 2

\* C14: whenever follow-up mode is off, pendingFollowups and
\* collectedAnswers are empty, followupCursor is 0 and originalAnswer is
\* empty.
C14_FollowupStateEmptyOutsideFollowup ==
    ~followup_mode =>
        /\ followup_questions = <<>>
        /\ followup_answers = <<>>
        /\ current_followup_index = 0
        /\ original_answer = <<>>

\* follow-up mode was left with an answer collected
C14_Witness ==
    /\ last.op = "AcceptFinal"
    /\ pc = "rerun"
    /\ ~followup_mode
    /\ \E q \in DOMAIN responses : responses[q].followup # <<>>

\* C15: the mode is exactly one of Normal, Followup, Editing: the
\* follow-up flag and the editing flag are never both set, and editTarget
\* is set exactly when the editing flag is set.
C15_OneMode ==
    /\ ~(followup_mode /\ editing_mode)
    /\ editing_mode <=> editing_question # <<>>

C15_Witness ==
    /\ editing_mode
    /\ editing_question = <<"Security", 1>>
    /\ ~followup_mode
    /\ pc = "idle"

\* C16: whenever a section is active the cursor lies in
\* 0..(number of questions of the active section).
C16_CursorInRange ==
    current_section # "" =>
        /\ current_section \in SectionNames
        /\ current_question_index \in 0..NumQuestions(current_section)

\* the cursor stands at the section length after the last commit of
\* Security, Company being still open
C16_Witness ==
    /\ current_section = "Security"
    /\ current_question_index = NumQuestions("Security")
    /\ pc = "rerun"
    /\ ~HasResponse(<<"Company", 0>>)

\* C17: once every question of every section has a Response, the next
\* redraw leaves completedSections equal to the set of all section names
\* and draws the Summary screen, no other.
C17_CompletionPrecedence ==
    [][(pc = "rerun" /\ \A q \in QIds : HasResponse(q)) =>
         /\ screen' = "Summary"
         /\ completed_sections' = SectionNames]_vars

\* the redraw after the commit of the last unanswered question
C17_Witness ==
    /\ pc = "idle"
    /\ screen = "Summary"
    /\ completed_sections = SectionNames
    /\ current_section # ""
    /\ current_question_index = NumQuestions(current_section)
    /\ \A q \in QIds : HasResponse(q)

\* C18: Restart from the Summary screen leaves the response store empty,
\* no active section, the cursor at 0, neither mode set and no question
\* counted as answered in any section; the redraw that follows leaves
\* completedSections empty and draws the Section-Selection screen.
C18_RestartClearsAll ==
    [][/\ Handles("Restart") =>
            /\ responses' = <<>>
            /\ current_section' = ""
            /\ current_question_index' = 0
            /\ ~followup_mode'
            /\ ~editing_mode'
            /\ \A s \in SectionNames : SectionAnswered(s)' = 0
       /\ (pc = "rerun" /\ last.op = "Restart") =>
            /\ completed_sections' = {}
            /\ screen' = "SectionSelection"]_vars

\* C19: UseOriginal, taken while a follow-up question is being asked,
\* commits originalAnswer with no follow-ups whatever answers were already
\* collected, empties the follow-up sub-state and moves the cursor on by 1.
C19_UseOriginalCommitsOriginal ==
    [][Handles("UseOriginal") =>
         /\ followup_mode
         /\ Committed(CurrentQ, original_answer, <<>>)
         /\ ~followup_mode'
         /\ followup_questions' = <<>>
         /\ followup_answers' = <<>>
         /\ current_followup_index' = 0
         /\ original_answer' = <<>>
         /\ current_question_index' = current_question_index + 1
         /\ UNCHANGED <<current_section, editing_state>>]_vars

\* the state after UseOriginal on the second question of Security
C19_Witness ==
    /\ last.op = "UseOriginal"
    /\ pc = "rerun"
    /\ current_section = "Security"
    /\ current_question_index = 2
    /\ HasResponse(<<"Security", 1>>)
    /\ responses[<<"Security", 1>>].answer = <<"a">>
    /\ responses[<<"Security", 1>>].followup = <<>>
    /\ ~followup_mode

\* what BackToSections does, and what the redraw after it draws
BackToSectionsEffect ==
    /\ Handles("BackToSections") =>
         /\ current_section # ""
         /\ current_section' = ""
         /\ ~followup_mode'
         /\ UNCHANGED <<responses, answered>>
    /\ (pc = "rerun" /\ last.op = "BackToSections") =>
         screen' = "SectionSelection"

\* C20 as stated: BackToSections clears activeSection, leaves mode not
\* Followup, commits nothing, and the next redraw draws Section-Selection;
\* it can be taken from every screen of an active section, the Followup
\* screen included.
C20_BackToSectionsAnywhere ==
    [][/\ BackToSectionsEffect
       /\ (pc = "idle" /\ current_section # "" /\ screen \in {"Main", "Followup"})
            => ENABLED BackToSections]_vars

\* C20 amended: BackToSections is offered on the Main Question screen and
\* on no other, so never while mode is Followup; there it clears
\* activeSection, leaves mode not Followup, commits nothing, and the next
\* redraw draws Section-Selection.
C20_BackToSectionsFromMain ==
    [][/\ BackToSectionsEffect
       /\ Handles("BackToSections") => (screen = "Main" /\ ~followup_mode)
       /\ (pc = "idle" /\ screen = "Main") => ENABLED BackToSections
       /\ (pc = "idle" /\ screen # "Main") => ~ENABLED BackToSections]_vars

\* the state after BackToSections taken at the second question of Security,
\* the first being committed
C20_Witness ==
    /\ last.op = "BackToSections"
    /\ pc = "rerun"
    /\ current_section = ""
    /\ current_question_index = 1
    /\ HasResponse(<<"Security", 0>>)
    /\ ~HasResponse(<<"Security", 1>>)

\* the indices of section s whose question is flagged answered
AnsweredIndices(s) == {i \in 0..(NumQuestions(s) - 1) : answered[<<s, i>>]}

\* the indices of section s that have a Response
ResponseIndices(s) == {i \in 0..(NumQuestions(s) - 1) : HasResponse(<<s, i>>)}

\* C21: the answered indices of every section are 0..k-1 for some k (no
\* unanswered index lies below an answered one), the same for the indices
\* that have a Response, and on the Main Question and Followup screens the
\* cursor is that k of the active section, its first unanswered index.
C21_AnsweredPrefix ==
    /\ \A s \in SectionNames :
         /\ AnsweredIndices(s) = 0..(SectionAnswered(s) - 1)
         /\ ResponseIndices(s) = 0..(Cardinality(ResponseIndices(s)) - 1)
    /\ (pc = "idle" /\ screen \in {"Main", "Followup"}) =>
         /\ current_section \in SectionNames
         /\ current_question_index = SectionAnswered(current_section)
         /\ current_question_index = Cardinality(ResponseIndices(current_section))
         /\ current_question_index < NumQuestions(current_section)

\* the Followup screen for the second question of Security, the first being
\* answered and Company having its answer too
C21_Witness ==
    /\ pc = "idle"
    /\ screen = "Followup"
    /\ current_section = "Security"
    /\ current_question_index = 1
    /\ AnsweredIndices("Security") = {0}
    /\ AnsweredIndices("Company") = {0}

\* the four operations of the question flow that commit a Response
FlowCommits == {"Submit", "Skip", "UseOriginal", "AcceptFinal"}

\* C22: Submit, Skip, UseOriginal and AcceptFinal never overwrite a
\* Response: the question one of them commits had none (and was not flagged
\* answered), every Response that existed stays as it was, and the new one
\* carries the timestamp of a first write. A Response that exists changes
\* in a SaveChanges step only, and goes away in a Restart step only.
C22_FlowNeverOverwrites ==
    [][/\ (pc = "idle" /\ last'.op \in FlowCommits /\ responses' # responses) =>
            /\ ~HasResponse(CurrentQ)
            /\ ~answered[CurrentQ]
            /\ DOMAIN responses' = DOMAIN responses \cup {CurrentQ}
            /\ \A q \in DOMAIN responses : responses'[q] = responses[q]
            /\ responses'[CurrentQ].timestamp = 0
       /\ \A q \in DOMAIN responses :
            /\ q \notin DOMAIN responses' => last'.op = "Restart"
            /\ (q \in DOMAIN responses' /\ responses'[q] # responses[q]) =>
                 last'.op = "SaveChanges"]_vars

\* the state after Skip committed the second question of Security next to
\* the Responses of Security's first question and of Company's
C22_Witness ==
    /\ last.op = "Skip"
    /\ pc = "rerun"
    /\ current_section = "Security"
    /\ current_question_index = 2
    /\ \A q \in QIds : HasResponse(q) /\ responses[q].timestamp = 0
    /\ responses[<<"Security", 0>>].answer = <<"a">>

\* C23: in Followup mode the number of collected follow-up answers is
\* followupCursor, which is at most the number of pending follow-up
\* questions, and the i-th collected pair carries the i-th pending question;
\* with an empty list of questions the Followup screen is at once the one
\* of the exhausted follow-ups, where AcceptFinal can be taken and Next not.
C23_FollowupCursor ==
    /\ followup_mode =>
         /\ Len(followup_answers) = current_followup_index
         /\ current_followup_index <= Len(followup_questions)
         /\ \A i \in 1..Len(followup_answers) :
                followup_answers[i].question = followup_questions[i]
    /\ (pc = "idle" /\ screen = "Followup" /\ followup_questions = <<>>) =>
         /\ current_followup_index = Len(followup_questions)
         /\ ENABLED AcceptFinal
         /\ ~ENABLED (\E a \in FollowupTexts : NextFollowup(a))

\* the Followup screen for the second question of Security after a verdict
\* with no question, the first question having been committed with two
\* collected follow-up pairs
C23_Witness ==
    /\ pc = "idle"
    /\ screen = "Followup"
    /\ followup_mode
    /\ followup_questions = <<>>
    /\ current_section = "Security"
    /\ current_question_index = 1
    /\ HasResponse(<<"Security", 0>>)
    /\ Len(responses[<<"Security", 0>>].followup) = 2

====
